---------------------------- MODULE Spec2Model ----------------------------
(***************************************************************************)
(* caro/main.cpp: the interactive bulk renamer.  The program reads an      *)
(* offset a and a minimum b, scans the working directory for regular files *)
(* named NUMBER.EXTENSION, sorts them by number (descending when a >= 0,   *)
(* ascending otherwise) and renames each one to (NUMBER + a).EXTENSION.    *)
(*                                                                         *)
(* A filename is the record [digits, ext]: the digit run before the first  *)
(* dot as a sequence of decimal digits (leading zeros kept), and the rest  *)
(* after that dot.  A name with an empty digit run stands for every name   *)
(* the pattern ^(\d+)\.(.+)$ rejects.  int is scaled down to the range     *)
(* INT_MIN..INT_MAX and the addition wraps in it, as the two's complement  *)
(* add of the compiled line does.                                          *)
(***************************************************************************)
EXTENDS Integers, Sequences, FiniteSets, TLC

VARIABLES
    dir,              \* the working directory: a set of entries, names unique
    dir0,             \* the directory as it was before the first run
    pc,               \* position in main
    a,                \* the offset read at line 43
    b,                \* the minimum read at line 53
    files_to_rename,  \* the vector of FileInfo of line 74
    idx,              \* position of the range-for of line 134
    out,              \* the per-file lines written by the rename pass
    reads,            \* operations performed on std::cin so far in this run
    err,              \* the fatal diagnostic written to std::cerr, or "none"
    exit_status,      \* "running" or the value main returned
    run               \* 1 for the first invocation, 2 for the one after it

vars == <<dir, dir0, pc, a, b, files_to_rename, idx, out, reads, err,
          exit_status, run>>

-----------------------------------------------------------------------------
(* Bounds *)

\* largest value of the scaled-down int
INT_MAX == 3
\* most entries in the initial directory
MaxFiles == 2

INT_MIN == -INT_MAX - 1
Int32 == INT_MIN..INT_MAX

\* extensions of the initial files
Exts == {"txt", "jpg"}

-----------------------------------------------------------------------------
(* Library functions *)

RECURSIVE to_string(_)
\* std::to_string on a non-negative int: its decimal digits, no leading zero
to_string(n) ==
    IF n < 10 THEN <<n>> ELSE to_string(n \div 10) \o <<n % 10>>

RECURSIVE DigitsValue(_)
\* the mathematical value of a digit run
DigitsValue(ds) ==
    IF ds = <<>> THEN 0
    ELSE 10 * DigitsValue(SubSeq(ds, 1, Len(ds) - 1)) + ds[Len(ds)]

\* std::stoi throws std::out_of_range when the digit run does not fit int
stoi_out_of_range(ds) == DigitsValue(ds) > INT_MAX

\* std::stoi on a digit run that fits
stoi(ds) == DigitsValue(ds)

\* std::regex_match against ^(\d+)\.(.+)$
regex_match(name) == Len(name.digits) >= 1 /\ name.ext # ""

\* int addition in the width of int.  A sum outside INT_MIN..INT_MAX is a
\* signed overflow, which the language leaves undefined; the add instruction
\* the line compiles to wraps, and that is the value taken here.
IntAdd(x, y) ==
    ((x + y - INT_MIN) % (INT_MAX - INT_MIN + 1)) + INT_MIN

\* std::filesystem::rename(from, to) on regular file `from`: the outcomes it
\* can have, each [ok, dir].  It may always fail (permissions, a lock); when it
\* succeeds an existing regular file named `to` is replaced, and a directory
\* named `to` makes it fail.
fs_rename(d, from, to) ==
    LET src    == {e \in d : e.name = from}
        dst    == {e \in d : e.name = to}
        moved  == {[e EXCEPT !.name = to] : e \in src}
        failed == {[ok |-> FALSE, dir |-> d]}
    IN  IF src = {} \/ (\E e \in dst : e.kind = "dir")
        THEN failed
        ELSE failed \cup {[ok |-> TRUE, dir |-> (d \ (src \cup dst)) \cup moved]}

-----------------------------------------------------------------------------
(* The initial directory *)

NoMatchName == [digits |-> <<>>, ext |-> "txt"]

\* names of the files the directory may hold at the start: every number up to
\* the first one that does not fit int, under each extension; the same with
\* one leading zero; and a name the pattern rejects
InitFileNames ==
    {[digits |-> to_string(n), ext |-> x] : n \in 0..(INT_MAX + 1), x \in Exts}
    \cup {[digits |-> <<0>> \o to_string(n), ext |-> "txt"] : n \in 0..INT_MAX}
    \cup {NoMatchName}

\* names of the subdirectories it may hold
InitDirNames == {[digits |-> to_string(n), ext |-> "txt"] : n \in 0..INT_MAX}

InitEntries ==
    {[name |-> nm, kind |-> "file", orig |-> nm] : nm \in InitFileNames}
    \cup {[name |-> nm, kind |-> "dir", orig |-> nm] : nm \in InitDirNames}

Names(d) == {e.name : e \in d}

UniqueNames(d) == Cardinality(Names(d)) = Cardinality(d)

InitDirs ==
    {d \in UNION {{{f[i] : i \in 1..k} : f \in [1..k -> InitEntries]} : k \in 0..MaxFiles} :
        UniqueNames(d)}

-----------------------------------------------------------------------------
(* main *)

\* the comparison of compareFilesAsc used for the descending sort
compareFilesDescMut(x, y) == x.number < y.number

\* lines 19-23
compareFilesDesc(x, y) == x.number > y.number

\* lines 25-29
compareFilesAsc(x, y) == x.number < y.number

\* lines 118-128: the comparison handed to std::sort
comp(x, y, offset) ==
    IF offset >= 0 THEN compareFilesDesc(x, y) ELSE compareFilesAsc(x, y)

\* lines 122, 128: the vectors std::sort may leave.  The directory order is
\* unspecified and the sort is not stable, so it is any arrangement of the
\* files that the comparison does not contradict.
std_sort(S, offset) ==
    LET n == Cardinality(S)
    IN  {p \in [1..n -> S] :
            /\ \A i, j \in 1..n : i # j => p[i] # p[j]
            /\ \A i, j \in 1..n : i < j => ~comp(p[j], p[i], offset)}

\* lines 78-103: the FileInfo of every regular file whose name matches and
\* whose number fits int
MatchedFiles(d) ==
    {[number |-> stoi(e.name.digits), original_path |-> e.name, extension |-> e.name.ext] :
        e \in {x \in d : /\ x.kind = "file"
                         /\ regex_match(x.name)
                         /\ ~stoi_out_of_range(x.name.digits)}}

\* line 136
NewNumber(old_number, offset) == IntAdd(old_number, offset)

\* the bound taken as exclusive
BelowMinimumMut(old_number, minimum) == old_number <= minimum

\* line 142
BelowMinimum(old_number, minimum) == old_number < minimum

\* line 151
NegativeNumber(new_number) == new_number < 0

\* the number written with a leading zero
NewFilenameMut(new_number, extension) ==
    [digits |-> <<0>> \o to_string(new_number), ext |-> extension]

\* line 159
NewFilename(new_number, extension) ==
    [digits |-> to_string(new_number), ext |-> extension]

\* the comparison made against something that is never the new filename
IdenticalNameMut(original_filename, new_filename) == FALSE

\* line 163
IdenticalName(original_filename, new_filename) == original_filename = new_filename

NoTarget == [digits |-> <<>>, ext |-> ""]

\* one line of the rename pass's report; `existed` records whether an entry
\* named `target` was in the directory when the rename was attempted
Line(fi, nn, what, tgt, ex) ==
    [file |-> fi.original_path, number |-> fi.number, new_number |-> nn,
     outcome |-> what, target |-> tgt, existed |-> ex, run |-> run]

Init ==
    /\ dir \in InitDirs
    /\ dir0 = dir
    /\ pc = "readA"
    /\ a = 0
    /\ b = 0
    /\ files_to_rename = <<>>
    /\ idx = 1
    /\ out = <<>>
    /\ reads = 0
    /\ err = "none"
    /\ exit_status = 0
    /\ run = 1

\* the error reported and the return forgotten: main goes on
FatalMut(msg) ==
    /\ err' = msg
    /\ pc' = IF pc = "readA" THEN "readB" ELSE IF pc = "readB" THEN "scan" ELSE "done"
    /\ exit_status' = exit_status

\* lines 47-48, 57-58, 106-107: report the fatal error and return 1
Fatal(msg) ==
    /\ err' = msg
    /\ pc' = "done"
    /\ exit_status' = 1

\* lines 41-49
ReadA ==
    /\ pc = "readA"
    /\ reads' = reads + 1
    /\ \/ \E v \in Int32 : a' = v /\ pc' = "readB" /\ UNCHANGED <<err, exit_status>>
       \/ a' = a /\ Fatal("Invalid input for 'a'")
    /\ UNCHANGED <<dir, dir0, b, files_to_rename, idx, out, run>>

\* lines 51-59
ReadB ==
    /\ pc = "readB"
    /\ reads' = reads + 1
    /\ \/ \E v \in Int32 : b' = v /\ pc' = "scan" /\ UNCHANGED <<err, exit_status>>
       \/ b' = b /\ Fatal("Invalid input for 'b'")
    /\ UNCHANGED <<dir, dir0, a, files_to_rename, idx, out, run>>

\* lines 76-130: the scan, the empty case and the sort
ScanAndSort ==
    /\ pc = "scan"
    /\ \/ /\ Fatal("Error accessing directory")      \* line 104
          /\ UNCHANGED files_to_rename
       \/ /\ MatchedFiles(dir) = {}                  \* line 111
          /\ pc' = "done"
          /\ exit_status' = 0
          /\ UNCHANGED <<files_to_rename, err>>
       \/ /\ MatchedFiles(dir) # {}
          /\ files_to_rename' \in std_sort(MatchedFiles(dir), a)
          /\ pc' = "rename"
          /\ UNCHANGED <<exit_status, err>>
    /\ idx' = 1
    /\ UNCHANGED <<dir, dir0, a, b, out, reads, run>>

\* the exception of a failed rename ends the pass
AfterRenameMut(ok) ==
    IF ~ok \/ idx = Len(files_to_rename) THEN "pause" ELSE "rename"

\* lines 176-180: the catch block reports the error and the loop goes on
AfterRename(ok) ==
    IF idx = Len(files_to_rename) THEN "pause" ELSE "rename"

\* lines 134-180: one iteration of the loop
RenameStep ==
    /\ pc = "rename"
    /\ idx <= Len(files_to_rename)
    /\ LET file_info    == files_to_rename[idx]
           old_number   == file_info.number
           new_number   == NewNumber(old_number, a)
           original     == file_info.original_path
           new_filename == NewFilename(new_number, file_info.extension)
       IN  IF BelowMinimum(old_number, b)
           THEN /\ out' = Append(out, Line(file_info, new_number, "below", NoTarget, FALSE))
                /\ dir' = dir
                /\ pc' = AfterRename(TRUE)
           ELSE IF NegativeNumber(new_number)
           THEN /\ out' = Append(out, Line(file_info, new_number, "negative", NoTarget, FALSE))
                /\ dir' = dir
                /\ pc' = AfterRename(TRUE)
           ELSE IF IdenticalName(original, new_filename)
           THEN /\ out' = Append(out, Line(file_info, new_number, "identical", new_filename, TRUE))
                /\ dir' = dir
                /\ pc' = AfterRename(TRUE)
           ELSE \E r \in fs_rename(dir, original, new_filename) :
                    /\ dir' = r.dir
                    /\ out' = Append(out, Line(file_info, new_number,
                                               IF r.ok THEN "renamed" ELSE "failed",
                                               new_filename,
                                               new_filename \in Names(dir)))
                    /\ pc' = AfterRename(r.ok)
    /\ idx' = idx + 1
    /\ UNCHANGED <<dir0, a, b, files_to_rename, reads, err, exit_status, run>>

\* the exit without the pause
PauseMut ==
    /\ pc = "pause"
    /\ reads' = reads
    /\ pc' = "done"
    /\ exit_status' = 0
    /\ UNCHANGED <<dir, dir0, a, b, files_to_rename, idx, out, err, run>>

\* lines 182-190: "Press Enter to exit.", cin.ignore(), cin.get(), return 0
Pause ==
    /\ pc = "pause"
    /\ reads' = reads + 2
    /\ pc' = "done"
    /\ exit_status' = 0
    /\ UNCHANGED <<dir, dir0, a, b, files_to_rename, idx, out, err, run>>

\* The program is started again on the directory the first run left, and
\* reads the tokens -a and b: lines 41-59 of the second invocation.
SecondRun ==
    /\ pc = "done"
    /\ exit_status = 0
    /\ run = 1
    /\ a # INT_MIN
    /\ run' = 2
    /\ a' = -a
    /\ reads' = 2
    /\ pc' = "scan"
    /\ files_to_rename' = <<>>
    /\ idx' = 1
    /\ UNCHANGED <<dir, dir0, b, out, err, exit_status>>

Next == ReadA \/ ReadB \/ ScanAndSort \/ RenameStep \/ Pause

Spec == Init /\ [][Next]_vars

\* two invocations in a row, the second with the opposite offset
NextTwice == Next \/ SecondRun

SpecTwice == Init /\ [][NextTwice]_vars

-----------------------------------------------------------------------------
(* Vocabulary of the properties *)

\* a name with no leading zero: exactly to_string(number) before the dot
Canonical(name) == name.digits = to_string(DigitsValue(name.digits))

AllCanonical == \A f \in MatchedFiles(dir0) : Canonical(f.original_path)

\* the lines of the report where fs::rename was called
Attempts == {i \in DOMAIN out : out[i].outcome \in {"renamed", "failed"}}

\* the lines where it succeeded
Renames == {i \in DOMAIN out : out[i].outcome = "renamed"}

-----------------------------------------------------------------------------
(* C1 *)

\* C1 as stated: of two files handled one after the other, the later one's
\* number is strictly smaller when a >= 0 and strictly larger when a < 0,
\* also when the two share a number.
C1_StrictOrder ==
    \A i \in DOMAIN out : i + 1 \in DOMAIN out =>
        IF a >= 0 THEN out[i + 1].number < out[i].number
                  ELSE out[i + 1].number > out[i].number

\* C1 amended: the files are handled in non-increasing order of number when
\* a >= 0 and in non-decreasing order when a < 0; the order is strict between
\* files of different numbers, and files that share a number come in either
\* order.
C1_WeakOrder ==
    \A i, j \in DOMAIN out : i < j =>
        IF a >= 0 THEN out[j].number <= out[i].number
                  ELSE out[j].number >= out[i].number

\* two files of the same number and different extensions have been handled
C1_Witness ==
    /\ pc = "done"
    /\ Len(out) = 2
    /\ out[1].number = out[2].number
    /\ out[1].file.ext # out[2].file.ext

-----------------------------------------------------------------------------
(* C2 *)

\* C2 as stated: with offset 0 no rename is attempted, whatever the directory
\* holds, and the filenames after the first and the second run are those
\* before.
C2_ZeroOffsetNoRename ==
    (pc # "readA" /\ a = 0) => (Attempts = {} /\ Names(dir) = Names(dir0))

\* C2 amended: when every matched filename is canonical (no leading zeros),
\* a run with offset 0 attempts no rename: every file that passes the minimum
\* check is reported identical, and the filenames after the run and after a
\* second such run are those before.
C2_ZeroOffsetCanonical ==
    (pc # "readA" /\ a = 0 /\ AllCanonical) =>
        /\ Attempts = {}
        /\ Names(dir) = Names(dir0)
        /\ \A i \in DOMAIN out : out[i].number >= b => out[i].outcome = "identical"

\* both runs with offset 0 are over and each reported a file identical
C2_Witness ==
    /\ pc = "done" /\ run = 2 /\ a = 0 /\ AllCanonical
    /\ \E i, j \in DOMAIN out :
          /\ out[i].run = 1 /\ out[i].outcome = "identical"
          /\ out[j].run = 2 /\ out[j].outcome = "identical"

-----------------------------------------------------------------------------
(* C3 *)

\* both runs are over, the second with the opposite offset
BothRunsDone == pc = "done" /\ run = 2 /\ exit_status = 0

\* the minimum is no greater than the smallest original number
MinimumBelowAll == \A f \in MatchedFiles(dir0) : b <= f.number

\* no rename of either run targeted a name that existed
NoCollision == \A i \in Attempts : ~out[i].existed

\* C3 as stated: after a run with offset a and a run with offset -a, with the
\* minimum no greater than the smallest original number and no rename aimed
\* at an existing name, the directory holds the original filenames.
C3_RoundTrip ==
    (BothRunsDone /\ MinimumBelowAll /\ NoCollision) => Names(dir) = Names(dir0)

\* C3 amended: the same, provided in addition that every matched filename is
\* canonical, that neither run skipped a file (as below the minimum, which
\* the shifted numbers of the second run may be, or for a negative new
\* number), and that no rename failed.
C3_RoundTripAmended ==
    (/\ BothRunsDone /\ MinimumBelowAll /\ NoCollision
     /\ AllCanonical
     /\ \A i \in DOMAIN out : out[i].outcome \in {"renamed", "identical"})
    => Names(dir) = Names(dir0)

\* a file was renamed by the first run and renamed back by the second
C3_Witness ==
    /\ BothRunsDone /\ MinimumBelowAll /\ NoCollision /\ AllCanonical
    /\ a # 0
    /\ \A i \in DOMAIN out : out[i].outcome = "renamed"
    /\ Len(out) = 4
    /\ Names(dir) = Names(dir0)

-----------------------------------------------------------------------------
(* C4 *)

\* C4 as stated: every file present before the run is present after it, under
\* its old or its new name, and the number of files is unchanged.
C4_NoFileLost ==
    /\ {e.orig : e \in dir} = Names(dir0)
    /\ Cardinality(dir) = Cardinality(dir0)

-----------------------------------------------------------------------------
(* C5 *)

\* C5 as stated: for every file that passes the minimum check the new number
\* the program goes on with is the exact sum number + offset, and a file for
\* which that sum is negative is not renamed.
C5_ExactSum ==
    \A i \in DOMAIN out : out[i].outcome # "below" =>
        /\ out[i].new_number = out[i].number + a
        /\ out[i].number + a < 0 => i \notin Attempts

-----------------------------------------------------------------------------
(* C6 *)

\* C6: a matched file whose number is below the minimum is skipped and never
\* the source of a rename, so it is still under its own name; a file whose
\* number is the minimum or more is not skipped for the minimum.
C6_MinimumInclusive ==
    /\ \A i \in DOMAIN out : (out[i].outcome = "below") <=> (out[i].number < b)
    /\ \A i \in Attempts : out[i].number >= b
    /\ \A e \in dir :
          (/\ e.kind = "file" /\ regex_match(e.orig)
           /\ ~stoi_out_of_range(e.orig.digits)
           /\ stoi(e.orig.digits) < b)
          => e.name = e.orig

\* a file below the minimum was skipped and a file at the minimum renamed
C6_Witness ==
    /\ pc = "done"
    /\ \E i, j \in DOMAIN out :
          /\ out[i].outcome = "below"
          /\ out[j].number = b /\ out[j].outcome = "renamed"

-----------------------------------------------------------------------------
(* C7 *)

\* C7: once a fatal error is reported (an unparsable a or b, a failed
\* enumeration) the program is over with status 1, no rename was attempted and
\* the directory is as before; status 1 has no other cause.
C7_FatalBeforeMutation ==
    /\ err # "none" =>
          /\ pc = "done" /\ exit_status = 1
          /\ out = <<>> /\ dir = dir0
    /\ (pc = "done" /\ exit_status = 1) => err # "none"

\* the enumeration failed in a directory that holds files to rename
C7_Witness ==
    /\ err = "Error accessing directory"
    /\ MatchedFiles(dir) # {}
    /\ a # 0

-----------------------------------------------------------------------------
(* C8 *)

\* C8: the report has one line per file handled, in the order of the sorted
\* vector; right after a failed rename the file is still under its original
\* name; and once the loop was entered the run handles every file and ends
\* with status 0, whichever renames failed.
C8_RenameFailureNonFatal ==
    /\ pc = "rename" => Len(out) = idx - 1
    /\ Len(out) <= Len(files_to_rename)
    /\ \A i \in DOMAIN out : out[i].file = files_to_rename[i].original_path
    /\ (pc \in {"pause", "done"} /\ files_to_rename # <<>>) =>
          Len(out) = Len(files_to_rename)
    /\ (pc = "done" /\ files_to_rename # <<>>) => exit_status = 0
    /\ (out # <<>> /\ out[Len(out)].outcome = "failed") =>
          \E e \in dir : e.name = out[Len(out)].file /\ e.orig = e.name

\* a rename failed and the next file was renamed all the same
C8_Witness ==
    /\ pc = "done" /\ exit_status = 0
    /\ Len(out) = 2
    /\ out[1].outcome = "failed"
    /\ out[2].outcome = "renamed"

-----------------------------------------------------------------------------
(* C9 *)

\* C9 as stated: in a directory of regular files whose matched names are all
\* canonical, no entry with the target name exists when a rename is
\* performed.
C9_NoOverwrite ==
    ((\A e \in dir0 : e.kind = "file") /\ AllCanonical) =>
        \A i \in Renames : ~out[i].existed

-----------------------------------------------------------------------------
(* C10 *)

\* C10 as stated: the two integer reads are the only operations on standard
\* input.
C10_TwoReadsOnly == reads <= 2

\* C10 amended: the run always goes on until it exits with status 0 or 1; it
\* reads standard input at the two integer reads and, when at least one file
\* matched, once more at the "Press Enter to exit" pause (cin.ignore and
\* cin.get) that follows the rename pass; a run that ends on invalid input,
\* on a failed enumeration or with no file matched reads nothing further.
C10_ReadsAndPause ==
    /\ pc # "done" => (ENABLED Next /\ reads <= 2)
    /\ pc = "done" =>
          /\ exit_status \in {0, 1}
          /\ IF files_to_rename # <<>> THEN reads = 4 /\ exit_status = 0
                                      ELSE reads <= 2

\* a run that renamed a file is over, after the pause
C10_Witness ==
    /\ pc = "done"
    /\ reads = 4
    /\ Renames # {}

=============================================================================
